---------------------------- MODULE Spec2Model ----------------------------
(***************************************************************************)
(* Stone Verified Ledger: the sign-and-append scripts, the verify script   *)
(* and the three on-disk structures (entries/, ledger/, index/) they       *)
(* share, together with the key registry (keys/keys.json) and the manual   *)
(* key rotation procedure of keys/README.md.                               *)
(*                                                                         *)
(* Conventions.                                                            *)
(*  - A JavaScript value is a flat tuple of strings whose first element is *)
(*    its type: <<"str", s>>, <<"null">>, <<"undefined">>,                 *)
(*    <<"arr", e1, ..., en>> (an array of strings) and                     *)
(*    <<"obj", k1, n1, ..., kn, nn>> (an object of numbers, the numbers    *)
(*    written as their decimal digits).                                    *)
(*  - A JavaScript object (a payload, an entry) is the sequence of its     *)
(*    <<key, value>> pairs in insertion order.                             *)
(*  - JSON.stringify without indentation is computed as a real string.     *)
(*  - A file that the scripts write with JSON.stringify and read back      *)
(*    with JSON.parse is held as the JSON document it contains.            *)
(***************************************************************************)
EXTENDS Naturals, Sequences, FiniteSets, TLC

(***************************************************************************)
(* JavaScript values and objects                                           *)
(***************************************************************************)
Undefined == <<"undefined">>

Null == <<"null">>

Str(s) == <<"str", s>>

Arr(elems) == <<"arr">> \o elems

Obj(flat) == <<"obj">> \o flat

IsArray(v) == v[1] = "arr"

\* JavaScript truthiness of a value: undefined, null and "" are falsy.
Truthy(v) == ~(v[1] \in {"undefined", "null"}) /\ v # Str("")

Has(o, f) == \E i \in 1..Len(o) : o[i][1] = f

\* o[f]: the value of property f, undefined when o has no such property.
Get(o, f) ==
  IF Has(o, f) THEN o[CHOOSE i \in 1..Len(o) : o[i][1] = f][2] ELSE Undefined

\* o[f] = v: an existing property keeps its place, a new one goes last.
Put(o, f, v) ==
  IF Has(o, f)
    THEN [i \in 1..Len(o) |-> IF o[i][1] = f THEN <<f, v>> ELSE o[i]]
    ELSE Append(o, <<f, v>>)

SelectNot(o, f) == SelectSeq(o, LAMBDA p : p[1] # f)

\* const { [f]: _, ...rest } = o
Without(o, f) == SelectNot(o, f)

Keys(o) == [i \in 1..Len(o) |-> o[i][1]]

(***************************************************************************)
(* Array.prototype.sort() with no comparator: ascending order of the       *)
(* strings by UTF-16 code units.  CodeUnits lists the characters the model *)
(* uses in code-unit order.                                                *)
(***************************************************************************)
CodeUnits == "-.0123456789:ABCDEFGHIJKLMNOPQRSTUVWXYZ_abcdefghijklmnopqrstuvwxyz"

CodeUnit(c) == CHOOSE i \in 1..Len(CodeUnits) : SubSeq(CodeUnits, i, i) = c

RECURSIVE StrLess(_, _)
StrLess(a, b) ==
  IF a = "" THEN b # ""
  ELSE IF b = "" THEN FALSE
  ELSE IF Head(a) = Head(b) THEN StrLess(Tail(a), Tail(b))
  ELSE CodeUnit(Head(a)) < CodeUnit(Head(b))

RECURSIVE Insert(_, _)
Insert(x, sorted) ==
  IF sorted = <<>> THEN <<x>>
  ELSE IF StrLess(x, Head(sorted)) THEN <<x>> \o sorted
  ELSE <<Head(sorted)>> \o Insert(x, Tail(sorted))

RECURSIVE Sort(_)
Sort(strs) == IF strs = <<>> THEN <<>> ELSE Insert(Head(strs), Sort(Tail(strs)))

\* The elements of an array value and the keys of an object value.
Elems(v) == Tail(v)

ObjKeys(v) == [i \in 1..((Len(v) - 1) \div 2) |-> v[2 * i]]

ObjGet(v, k) == v[(CHOOSE i \in 1..((Len(v) - 1) \div 2) : v[2 * i] = k) * 2 + 1]

RECURSIVE ObjFrom(_, _)
ObjFrom(keys, v) ==
  IF keys = <<>> THEN <<>>
  ELSE <<Head(keys), ObjGet(v, Head(keys))>> \o ObjFrom(Tail(keys), v)

\* The scores object with its keys left in the order they were supplied.
SortedScores_AsGiven(v) == v

\* Object.keys(scores).sort().forEach(key => sortedScores[key] = scores[key])
SortedScores(v) == Obj(ObjFrom(Sort(ObjKeys(v)), v))

(***************************************************************************)
(* JSON.stringify(value) with no indentation                               *)
(***************************************************************************)
Quote(s) == "\"" \o s \o "\""

RECURSIVE JoinStrs(_)
JoinStrs(strs) ==
  IF strs = <<>> THEN ""
  ELSE IF Len(strs) = 1 THEN Head(strs)
  ELSE Head(strs) \o "," \o JoinStrs(Tail(strs))

StringifyValue(v) ==
  CASE v[1] = "str" -> Quote(v[2])
    [] v[1] = "null" -> "null"
    [] v[1] = "arr" -> "[" \o JoinStrs([i \in 1..(Len(v) - 1) |-> Quote(v[i + 1])]) \o "]"
    [] v[1] = "obj" ->
         "{" \o JoinStrs([i \in 1..((Len(v) - 1) \div 2) |->
                            Quote(v[2 * i]) \o ":" \o v[2 * i + 1]]) \o "}"

JSONstringify(o) ==
  "{" \o JoinStrs([i \in 1..Len(o) |-> Quote(o[i][1]) \o ":" \o StringifyValue(o[i][2])])
      \o "}"

(***************************************************************************)
(* canonicalize: the three copies in the repository                        *)
(***************************************************************************)
\* scripts/sign-and-append.mjs
FIELD_ORDER ==
  << "entry_id", "issued_at", "subject_type", "subject_ref", "subject_locator",
     "business_legal_name", "business_dba", "business_ein", "business_address",
     "business_country", "business_state", "business_industry", "business_website",
     "business_contact_email", "app_name", "app_version", "app_platform",
     "app_language", "app_framework", "repository_url", "license_type",
     "artifact_hash", "verification_date", "verification_method", "verified_by",
     "compliance_standards", "verification_scope", "risk_level", "expires_at",
     "related_entry_ids", "tags", "certificate_ids", "dependencies",
     "ai_models_used", "notes", "policy_version", "result", "scores",
     "report_hash", "key_id" >>

arrayFields ==
  { "ai_models_used", "compliance_standards", "related_entry_ids", "tags",
    "certificate_ids", "dependencies" }

\* A canonicalize that sorts every array, whatever the field.
CanonicalValue_SortAll(field, v) ==
  IF field = "scores" /\ Truthy(v) THEN SortedScores(v)
  ELSE IF IsArray(v) THEN Arr(Sort(Elems(v)))
  ELSE v

\* The value canonicalize stores under `field` once the field is included.
CanonicalValue(field, v) ==
  IF field = "scores" /\ Truthy(v) THEN SortedScores(v)
  ELSE IF IsArray(v)
    THEN IF field \in arrayFields THEN Arr(Sort(Elems(v))) ELSE v
  ELSE v

RECURSIVE CanonicalFrom(_, _)
CanonicalFrom(entry, i) ==
  IF i > Len(FIELD_ORDER) THEN <<>>
  ELSE LET field == FIELD_ORDER[i]
           v == Get(entry, field)
       IN  (IF v # Undefined /\ v # Null
              THEN << <<field, CanonicalValue(field, v)>> >>
              ELSE <<>>)
           \o CanonicalFrom(entry, i + 1)

\* A canonicalize that copies a signature field of the entry into `canonical`.
canonicalObject_KeepSignature(entry) ==
  CanonicalFrom(entry, 1)
    \o (IF Get(entry, "signature") # Undefined /\ Get(entry, "signature") # Null
          THEN << <<"signature", Get(entry, "signature")>> >>
          ELSE <<>>)

\* The object `canonical` that canonicalize builds.
canonicalObject(entry) == CanonicalFrom(entry, 1)

canonicalize(entry) == JSONstringify(canonicalObject(entry))

\* The earlier sign-and-append script (src/unnamed/part_000)
FIELD_ORDER_0 ==
  << "entry_id", "issued_at", "subject_type", "subject_ref", "subject_locator",
     "policy_version", "result", "scores", "report_hash", "key_id" >>

CanonicalValue_0(field, v) ==
  IF field = "scores" /\ Truthy(v) THEN SortedScores(v) ELSE v

RECURSIVE CanonicalFrom_0(_, _)
CanonicalFrom_0(entry, i) ==
  IF i > Len(FIELD_ORDER_0) THEN <<>>
  ELSE LET field == FIELD_ORDER_0[i]
           v == Get(entry, field)
       IN  (IF v # Undefined
              THEN << <<field, CanonicalValue_0(field, v)>> >>
              ELSE <<>>)
           \o CanonicalFrom_0(entry, i + 1)

canonicalObject_0(entry) == CanonicalFrom_0(entry, 1)

canonicalize_0(entry) == JSONstringify(canonicalObject_0(entry))

\* scripts/verify.mjs (src/unnamed/part_001)
FIELD_ORDER_V ==
  << "entry_id", "issued_at", "subject_type", "subject_ref", "subject_locator",
     "policy_version", "result", "scores", "report_hash", "key_id" >>

CanonicalValue_V(field, v) ==
  IF field = "scores" /\ Truthy(v) THEN SortedScores(v) ELSE v

RECURSIVE CanonicalFrom_V(_, _)
CanonicalFrom_V(entry, i) ==
  IF i > Len(FIELD_ORDER_V) THEN <<>>
  ELSE LET field == FIELD_ORDER_V[i]
           v == Get(entry, field)
       IN  (IF v # Undefined
              THEN << <<field, CanonicalValue_V(field, v)>> >>
              ELSE <<>>)
           \o CanonicalFrom_V(entry, i + 1)

canonicalObject_V(entry) == CanonicalFrom_V(entry, 1)

canonicalize_V(entry) == JSONstringify(canonicalObject_V(entry))

(***************************************************************************)
(* Keys and signatures.  A key pair is named by a letter; Ed25519 is       *)
(* deterministic, so the Base64 signature of a message under a secret key  *)
(* is a function of the two, and it verifies under a public key exactly    *)
(* when that key belongs to the same pair and the message is the same.     *)
(***************************************************************************)
KeyPairs == <<"A", "B", "C", "D">>

KeyIds == <<"K1", "K2", "K3", "K4">>

\* generate-keys.mjs: the Base64 public key and the 64-byte secret key of a pair.
PublicKeyBase64(pair) == "pub:" \o pair

SecretKey(pair) == [bytes |-> 64, pair |-> pair]

Seed(pair) == [bytes |-> 32, pair |-> pair]

\* nacl.sign.keyPair.fromSeed(seed).secretKey
FromSeed(seed) == [bytes |-> 64, pair |-> seed.pair]

\* Buffer.from(nacl.sign.detached(message, secretKey)).toString('base64')
SignDetached(message, secretKey) == "ed25519:" \o secretKey.pair \o ":" \o message

\* The number of bytes a Base64 signature string decodes to, as far as the
\* check `signatureBytes.length !== 64` can tell: 64 for a detached signature.
SignatureBytes(signatureBase64) ==
  IF Len(signatureBase64) >= 8 /\ SubSeq(signatureBase64, 1, 8) = "ed25519:"
    THEN 64 ELSE Len(signatureBase64)

PublicKeyBytes(publicKeyBase64) ==
  IF Len(publicKeyBase64) >= 4 /\ SubSeq(publicKeyBase64, 1, 4) = "pub:"
    THEN 32 ELSE Len(publicKeyBase64)

\* nacl.sign.detached.verify(message, signature, publicKey)
DetachedVerify(message, signatureBase64, publicKeyBase64) ==
  \E i \in 1..Len(KeyPairs) :
    /\ publicKeyBase64 = PublicKeyBase64(KeyPairs[i])
    /\ signatureBase64 = SignDetached(message, SecretKey(KeyPairs[i]))

\* One record of keys.json.
KeyRecord(pair) == [type |-> "ed25519", publicKeyBase64 |-> PublicKeyBase64(pair)]

\* crypto.createHash('sha256').update(s).digest('hex'): one-way and, on the
\* strings of the model, free of collisions.
Sha256Hex(s) == "sha256(" \o s \o ")"

\* The number a string of decimal digits denotes.
Digit(c) == CHOOSE n \in 0..9 : SubSeq("0123456789", n + 1, n + 1) = c

RECURSIVE Num(_)
Num(digits) ==
  IF digits = "" THEN 0
  ELSE 10 * Num(SubSeq(digits, 1, Len(digits) - 1))
         + Digit(SubSeq(digits, Len(digits), Len(digits)))

\* n in decimal, padded with zeros to `width` digits.
RECURSIVE Pad(_, _)
Pad(n, width) ==
  IF width = 0 THEN ""
  ELSE Pad(n \div 10, width - 1) \o SubSeq("0123456789", (n % 10) + 1, (n % 10) + 1)

DaysInMonth(year, month) ==
  IF month = 2
    THEN IF year % 4 = 0 /\ (year % 100 # 0 \/ year % 400 = 0) THEN 29 ELSE 28
  ELSE IF month \in {4, 6, 9, 11} THEN 30 ELSE 31

\* The date of the wall-clock text, taken as it stands.
DateStr_Local(issued_at) == SubSeq(issued_at, 1, 10)

\* new Date(issued_at).toISOString().split('T')[0] for a timestamp of the form
\* YYYY-MM-DDTHH:mm:ss.sss followed by Z or by an offset +hh:mm or -hh:mm: the
\* calendar date, in UTC, of the instant the timestamp denotes.
DateStr(issued_at) ==
  LET n == Len(issued_at)
      year == Num(SubSeq(issued_at, 1, 4))
      month == Num(SubSeq(issued_at, 6, 7))
      day == Num(SubSeq(issued_at, 9, 10))
      local == 60 * Num(SubSeq(issued_at, 12, 13)) + Num(SubSeq(issued_at, 15, 16))
      west == SubSeq(issued_at, n, n) # "Z" /\ SubSeq(issued_at, n - 5, n - 5) = "-"
      offset == IF SubSeq(issued_at, n, n) = "Z" THEN 0
                ELSE 60 * Num(SubSeq(issued_at, n - 4, n - 3)) + Num(SubSeq(issued_at, n - 1, n))
      date == IF ~west /\ local < offset
                THEN IF day > 1 THEN <<year, month, day - 1>>
                     ELSE IF month > 1 THEN <<year, month - 1, DaysInMonth(year, month - 1)>>
                     ELSE <<year - 1, 12, 31>>
              ELSE IF west /\ local + offset >= 1440
                THEN IF day < DaysInMonth(year, month) THEN <<year, month, day + 1>>
                     ELSE IF month < 12 THEN <<year, month + 1, 1>>
                     ELSE <<year + 1, 1, 1>>
              ELSE <<year, month, day>>
  IN  Pad(date[1], 4) \o "-" \o Pad(date[2], 2) \o "-" \o Pad(date[3], 2)

(***************************************************************************)
(* verify.mjs                                                              *)
(***************************************************************************)
\* The outcome of one run: the exit code, the reason and the JSON printed.
Outcome(code, reason, printed) == [code |-> code, reason |-> reason, printed |-> printed]

verifySignature(canonicalJson, signatureBase64, publicKeyBase64) ==
  IF PublicKeyBytes(publicKeyBase64) # 32 THEN "throw:Invalid public key length"
  ELSE IF SignatureBytes(signatureBase64) # 64 THEN "throw:Invalid signature length"
  ELSE IF DetachedVerify(canonicalJson, signatureBase64, publicKeyBase64) THEN "true"
  ELSE "false"

\* A verifier that checks the signature before the type of the key record.
VerifyEntry_TypeLast(entry, keysData) ==
  IF ~Truthy(Get(entry, "signature"))
    THEN Outcome(1, "Entry missing signature field", <<>>)
  ELSE IF ~Truthy(Get(entry, "key_id"))
    THEN Outcome(1, "Entry missing key_id field", <<>>)
  ELSE IF Get(entry, "key_id")[1] # "str" \/ Get(entry, "key_id")[2] \notin DOMAIN keysData.keys
    THEN Outcome(1, "Key ID not found in keys.json", <<>>)
  ELSE
    LET keyInfo == keysData.keys[Get(entry, "key_id")[2]]
        signature == Get(entry, "signature")
        isValid == verifySignature(canonicalize_V(Without(entry, "signature")),
                                   IF signature[1] = "str" THEN signature[2] ELSE "",
                                   keyInfo.publicKeyBase64)
    IN  IF isValid = "false"
          THEN Outcome(1, "Signature verification failed", <<>>)
        ELSE IF isValid # "true" THEN Outcome(1, isValid, <<>>)
        ELSE IF keyInfo.type # "ed25519"
          THEN Outcome(1, "Unsupported key type", <<>>)
        ELSE Outcome(0, "valid", <<>>)

\* A verifier that resolves the public key through `active` instead of through
\* the entry's key_id.
VerifyEntry_ByActive(entry, keysData) ==
  IF ~Truthy(Get(entry, "signature"))
    THEN Outcome(1, "Entry missing signature field", <<>>)
  ELSE IF ~Truthy(Get(entry, "key_id"))
    THEN Outcome(1, "Entry missing key_id field", <<>>)
  ELSE IF keysData.active \notin DOMAIN keysData.keys
    THEN Outcome(1, "Key ID not found in keys.json", <<>>)
  ELSE
    LET keyInfo == keysData.keys[keysData.active]
        signature == Get(entry, "signature")
        isValid == verifySignature(canonicalize_V(Without(entry, "signature")),
                                   IF signature[1] = "str" THEN signature[2] ELSE "",
                                   keyInfo.publicKeyBase64)
    IN  IF keyInfo.type # "ed25519"
          THEN Outcome(1, "Unsupported key type", <<>>)
        ELSE IF isValid = "true"
          THEN Outcome(0, "valid", <<>>)
        ELSE Outcome(1, "Signature verification failed", <<>>)

\* main of verify.mjs on the parsed entry file and the parsed keys.json.
VerifyEntry(entry, keysData) ==
  IF ~Truthy(Get(entry, "signature"))
    THEN Outcome(1, "Entry missing signature field", <<>>)
  ELSE IF ~Truthy(Get(entry, "key_id"))
    THEN Outcome(1, "Entry missing key_id field", <<>>)
  ELSE IF Get(entry, "key_id")[1] # "str" \/ Get(entry, "key_id")[2] \notin DOMAIN keysData.keys
    THEN Outcome(1, "Key ID not found in keys.json", <<>>)
  ELSE
    LET keyInfo == keysData.keys[Get(entry, "key_id")[2]]
        signature == Get(entry, "signature")
        entryWithoutSignature == Without(entry, "signature")
        canonicalJson == canonicalize_V(entryWithoutSignature)
        isValid == verifySignature(canonicalJson,
                                   IF signature[1] = "str" THEN signature[2] ELSE "",
                                   keyInfo.publicKeyBase64)
    IN  IF keyInfo.type # "ed25519"
          THEN Outcome(1, "Unsupported key type", <<>>)
        ELSE IF isValid = "true"
          THEN Outcome(0, "valid",
                       << <<"valid", Str("true")>>,
                          <<"entry_id", Get(entry, "entry_id")>>,
                          <<"key_id", Get(entry, "key_id")>>,
                          <<"issued_at", Get(entry, "issued_at")>> >>)
        ELSE IF isValid = "false"
          THEN Outcome(1, "Signature verification failed",
                       << <<"valid", Str("false")>>,
                          <<"entry_id", Get(entry, "entry_id")>>,
                          <<"error", Str("Signature verification failed")>> >>)
        ELSE Outcome(1, isValid, <<>>)

Valid(entry, keysData) == VerifyEntry(entry, keysData).code = 0

(***************************************************************************)
(* Bounds and inputs                                                       *)
(***************************************************************************)
\* Invocations of a sign-and-append script in one behaviour.
MaxAppends == 2

\* Key rotations in one behaviour.
MaxRotations == 1

\* The runners that may execute a script at the same time.
Procs == {"p1", "p2"}

Scripts == {"sign-and-append", "sign-and-append-0"}

Day1 == "2026-02-01T05:00:00.000Z"

Day2 == "2026-02-02T23:59:59.999Z"

Base(entry_id, subject_ref) ==
  << <<"entry_id", Str(entry_id)>>,
     <<"issued_at", Str(Day1)>>,
     <<"subject_type", Str("code")>>,
     <<"subject_ref", Str(subject_ref)>>,
     <<"policy_version", Str("sv-0.1")>>,
     <<"result", Str("pass")>>,
     <<"report_hash", Str("sha256:00")>> >>

\* The candidate payloads handed to the scripts: two plain entries of one
\* subject, a second entry for an identifier already used (another subject and
\* day, no report_hash, an extended field), and a second entry for the other
\* identifier that names its own key.
Payloads ==
  { Base("E1", "abc"),
    Base("E2", "abc"),
    Put(Put(Without(Base("E1", "xyz"), "report_hash"), "issued_at", Str(Day2)),
        "tags", Arr(<<"b", "a">>)),
    Put(Base("E2", "xyz"), "key_id", Str("K9")) }

(***************************************************************************)
(* Schema validation (schemas/ledger-entry.schema.json through Ajv, with   *)
(* `signature` dropped from the required fields)                           *)
(***************************************************************************)
RequiredFields ==
  { "entry_id", "issued_at", "subject_type", "subject_ref", "policy_version",
    "result", "report_hash", "key_id" }

validateEntry(payload) ==
  /\ \A f \in RequiredFields : Get(payload, f)[1] = "str" /\ Get(payload, f)[2] # ""
  /\ Get(payload, "subject_type")[2] \in {"code", "document", "artifact", "repository"}
  /\ Get(payload, "result")[2] \in {"pass", "fail", "partial"}
  /\ Get(payload, "subject_locator")[1] \in {"undefined", "null", "str"}
  /\ Get(payload, "scores")[1] \in {"undefined", "null", "obj"}

(***************************************************************************)
(* State                                                                   *)
(***************************************************************************)
VARIABLES
  script,          \* the version of scripts/sign-and-append.mjs that is installed
  keysJson,        \* keys/keys.json: [active, keys]
  privateKeyB64,   \* the secret STONE_LEDGER_PRIVATE_KEY_B64
  rotation,        \* the operator's place in the rotation procedure
  rotations,       \* rotations begun so far
  entriesDir,      \* entries/<entry_id>.json -> the entry it holds
  ledgerDir,       \* ledger/<date>.ndjson -> its lines
  indexDir,        \* index/subject_ref/<xx>/<hash>.json -> [subject_ref, entry_ids]
  proc,            \* each runner's script, place in it and local variables
  started,         \* invocations begun so far
  committed,       \* entry_id -> invocations that reported success for it
  pure             \* the input and the results of a function applied on its own

vars ==
  << script, keysJson, privateKeyB64, rotation, rotations, entriesDir, ledgerDir, indexDir,
     proc, started, committed, pure >>

\* A directory is a function from the names of its files to their contents.
NoFiles == <<>>

WriteFile(dir, name, content) ==
  [n \in DOMAIN dir \cup {name} |-> IF n = name THEN content ELSE dir[n]]

Exists(dir, name) == name \in DOMAIN dir

\* A write that replaces the file by the one line, as writeFileSync does.
AppendFile_Overwrite(dir, name, line) == WriteFile(dir, name, <<line>>)

\* fs.appendFileSync(path, line): one write to the end of the file.
AppendFile(dir, name, line) ==
  WriteFile(dir, name, IF Exists(dir, name) THEN Append(dir[name], line) ELSE <<line>>)

NoIndexData == [subject_ref |-> "", entry_ids |-> <<>>]

\* What writeFileSync leaves when it opened (and so truncated) the file and did
\* not get to write: an empty file, which JSON.parse does not accept.
TruncatedEntry == <<>>

TruncatedIndex == [subject_ref |-> "", entry_ids |-> <<>>]

\* JSON.parse(readFileSync(indexFilePath)) returns a value.
ParsesIndex(content) == content # TruncatedIndex

Idle ==
  [pc |-> "idle", signedEntry |-> <<>>, canonical |-> <<>>,
   indexData |-> NoIndexData, existed |-> FALSE, error |-> ""]

NoOutcome == [code |-> 0, reason |-> "", printed |-> <<>>]

NoPure ==
  [stage |-> "none", input |-> <<>>, sealed |-> Idle, verdict |-> NoOutcome,
   tampered |-> <<>>, tamperedVerdict |-> NoOutcome, canonical |-> <<>>]

Init ==
  /\ script \in Scripts
  /\ keysJson = [active |-> KeyIds[1], keys |-> [k \in {KeyIds[1]} |-> KeyRecord(KeyPairs[1])]]
  /\ privateKeyB64 = SecretKey(KeyPairs[1])
  /\ rotation = "none"
  /\ rotations = 0
  /\ entriesDir = NoFiles
  /\ ledgerDir = NoFiles
  /\ indexDir = NoFiles
  /\ proc = [p \in Procs |-> Idle]
  /\ started = 0
  /\ committed = NoFiles
  /\ pure = NoPure

Field(entry, f) == Get(entry, f)[2]

\* `${value}` in a template literal.
Text(v) == IF v[1] = "str" THEN v[2] ELSE v[1]

\* console.error(reason); process.exit(1)
Failed(reason) ==
  [pc |-> "failed", signedEntry |-> <<>>, canonical |-> <<>>,
   indexData |-> NoIndexData, existed |-> FALSE, error |-> reason]

Signed(signedEntry, canonical, existed) ==
  [pc |-> "signed", signedEntry |-> signedEntry, canonical |-> canonical,
   indexData |-> NoIndexData, existed |-> existed, error |-> ""]

(***************************************************************************)
(* scripts/sign-and-append.mjs                                             *)
(***************************************************************************)
\* A signer that stamps the active key over a key_id the payload supplies.
StampKeyId_Always(payload, activeKeyId) == Put(payload, "key_id", Str(activeKeyId))

\* if (!payload.key_id) payload.key_id = activeKeyId
StampKeyId(payload, activeKeyId) ==
  IF ~Truthy(Get(payload, "key_id")) THEN Put(payload, "key_id", Str(activeKeyId))
  ELSE payload

\* The default report_hash of a payload that brings none.
AutoReportHash(payload) ==
  IF ~Truthy(Get(payload, "report_hash"))
    THEN Put(payload, "report_hash",
             Str("sha256:" \o Sha256Hex("simple-verification-no-report-"
                                          \o Text(Get(payload, "entry_id")))))
    ELSE payload

\* The 64-byte secret key the script signs with, from the decoded secret.
DeriveSecretKey(keyBytes) == IF keyBytes.bytes = 32 THEN FromSeed(keyBytes) ELSE keyBytes

\* main up to the signed entry: what the run holds before its first write.
SignPayload(payloadIn, keysRegistry, privateKey, existed) ==
  LET activeKeyId == keysRegistry.active
      payload == AutoReportHash(StampKeyId(payloadIn, activeKeyId))
      canonical == canonicalObject(payload)
      signatureB64 == SignDetached(JSONstringify(canonical), DeriveSecretKey(privateKey))
  IN  IF activeKeyId \notin DOMAIN keysRegistry.keys
        THEN Failed("Active key not found in keys.json")
      ELSE IF ~validateEntry(payload) THEN Failed("Validation errors")
      ELSE IF privateKey.bytes = 0
        THEN Failed("STONE_LEDGER_PRIVATE_KEY_B64 environment variable not set")
      ELSE IF privateKey.bytes \notin {32, 64} THEN Failed("Key length")
      ELSE Signed(Put(payload, "signature", Str(signatureB64)), canonical, existed)

\* A runner is free to start a run.  The runners are interchangeable: p1 names
\* the one that starts first.
CanStart(p) ==
  /\ proc[p].pc \in {"idle", "done", "failed"}
  /\ started < MaxAppends
  /\ p = "p1" \/ proc["p1"].pc # "idle"

Sign(p) ==
  /\ script = "sign-and-append"
  /\ CanStart(p)
  /\ \E payload \in Payloads :
       proc' = [proc EXCEPT ![p] =
                  SignPayload(payload, keysJson, privateKeyB64,
                              Exists(entriesDir, Text(Get(payload, "entry_id"))))]
  /\ started' = started + 1
  /\ UNCHANGED << pure, script, keysJson, privateKeyB64, rotation, rotations, entriesDir, ledgerDir,
                  indexDir, committed >>

At(p, version, pc) == script = version /\ proc[p].pc = pc

Goto(p, pc) == proc' = [proc EXCEPT ![p].pc = pc]

\* writeFileSync(entryFilePath, JSON.stringify(signedEntry, null, 2) + '\n')
WriteEntryFile(p) ==
  /\ At(p, "sign-and-append", "signed")
  /\ entriesDir' = WriteFile(entriesDir, Field(proc[p].signedEntry, "entry_id"),
                             proc[p].signedEntry)
  /\ Goto(p, "written")
  /\ UNCHANGED << pure, script, keysJson, privateKeyB64, rotation, rotations, ledgerDir, indexDir,
                  started, committed >>

\* appendFileSync(ledgerFilePath, JSON.stringify(signedEntry) + '\n')
AppendLedger(p) ==
  /\ At(p, "sign-and-append", "written")
  /\ ledgerDir' = AppendFile(ledgerDir, DateStr(Field(proc[p].signedEntry, "issued_at")),
                             proc[p].signedEntry)
  /\ Goto(p, "logged")
  /\ UNCHANGED << pure, script, keysJson, privateKeyB64, rotation, rotations, entriesDir, indexDir,
                  started, committed >>

IndexPath(entry) == Sha256Hex(Field(entry, "subject_ref"))

FreshIndex(entry) == [subject_ref |-> Field(entry, "subject_ref"), entry_ids |-> <<>>]

\* A run that starts from an empty index record whether or not the index file
\* exists.
ReadIndex_Fresh(p) ==
  /\ At(p, "sign-and-append", "logged")
  /\ proc' = [proc EXCEPT ![p].pc = "indexRead",
                          ![p].indexData = FreshIndex(proc[p].signedEntry)]
  /\ UNCHANGED << pure, script, keysJson, privateKeyB64, rotation, rotations, entriesDir, ledgerDir,
                  indexDir, started, committed >>

\* existsSync(indexFilePath) and JSON.parse(readFileSync(indexFilePath)); a file
\* that does not parse is taken as corrupted and the run starts fresh.
ReadIndex(p) ==
  /\ At(p, "sign-and-append", "logged")
  /\ proc' = [proc EXCEPT ![p].pc = "indexRead",
                          ![p].indexData =
                             IF /\ Exists(indexDir, IndexPath(proc[p].signedEntry))
                                /\ ParsesIndex(indexDir[IndexPath(proc[p].signedEntry)])
                               THEN indexDir[IndexPath(proc[p].signedEntry)]
                               ELSE FreshIndex(proc[p].signedEntry)]
  /\ UNCHANGED << pure, script, keysJson, privateKeyB64, rotation, rotations, entriesDir, ledgerDir,
                  indexDir, started, committed >>

Includes(seq, x) == \E i \in 1..Len(seq) : seq[i] = x

Count(counts, k) == IF k \in DOMAIN counts THEN counts[k] ELSE 0

\* The run reports success and exits.
Succeed(p) ==
  /\ Goto(p, "done")
  /\ committed' = WriteFile(committed, Field(proc[p].signedEntry, "entry_id"),
                            Count(committed, Field(proc[p].signedEntry, "entry_id")) + 1)

\* if (!indexData.entry_ids.includes(entry_id)) { push; writeFileSync }, then success
WriteIndex(p) ==
  /\ At(p, "sign-and-append", "indexRead")
  /\ LET entry_id == Field(proc[p].signedEntry, "entry_id")
         indexData == proc[p].indexData
     IN  indexDir' =
           IF ~Includes(indexData.entry_ids, entry_id)
             THEN WriteFile(indexDir, IndexPath(proc[p].signedEntry),
                            [indexData EXCEPT !.entry_ids = Append(@, entry_id)])
             ELSE indexDir
  /\ Succeed(p)
  /\ UNCHANGED << pure, script, keysJson, privateKeyB64, rotation, rotations, entriesDir, ledgerDir,
                  started >>

(***************************************************************************)
(* The earlier sign-and-append script (src/unnamed/part_000)               *)
(***************************************************************************)
\* signEntry: only a 64-byte secret key is accepted.
signEntry(canonicalJson, privateKey) == SignDetached(canonicalJson, privateKey)

SignPayload_0(payloadIn, keysData, privateKey, existed) ==
  LET payloadWithoutSignature == StampKeyId(Without(payloadIn, "signature"), keysData.active)
      canonical == canonicalObject_0(payloadWithoutSignature)
      signature == signEntry(JSONstringify(canonical), privateKey)
  IN  IF ~validateEntry(payloadWithoutSignature) THEN Failed("Validation errors")
      ELSE IF privateKey.bytes = 0
        THEN Failed("STONE_LEDGER_PRIVATE_KEY_B64 environment variable not set")
      ELSE IF privateKey.bytes # 64 THEN Failed("Invalid private key length")
      ELSE Signed(Put(payloadWithoutSignature, "signature", Str(signature)),
                  canonical, existed)

Sign_0(p) ==
  /\ script = "sign-and-append-0"
  /\ CanStart(p)
  /\ \E payload \in Payloads :
       proc' = [proc EXCEPT ![p] =
                  SignPayload_0(payload, keysJson, privateKeyB64,
                                Exists(entriesDir, Text(Get(payload, "entry_id"))))]
  /\ started' = started + 1
  /\ UNCHANGED << pure, script, keysJson, privateKeyB64, rotation, rotations, entriesDir, ledgerDir,
                  indexDir, committed >>

\* fs.writeFileSync(entryPath, JSON.stringify(entry, null, 2) + '\n')
WriteEntryFile_0(p) ==
  /\ At(p, "sign-and-append-0", "signed")
  /\ entriesDir' = WriteFile(entriesDir, Field(proc[p].signedEntry, "entry_id"),
                             proc[p].signedEntry)
  /\ Goto(p, "written")
  /\ UNCHANGED << pure, script, keysJson, privateKeyB64, rotation, rotations, ledgerDir, indexDir,
                  started, committed >>

\* fs.appendFileSync(ledgerPath, canonicalJson + '\n')
AppendLedger_0(p) ==
  /\ At(p, "sign-and-append-0", "written")
  /\ ledgerDir' = AppendFile(ledgerDir, DateStr(Field(proc[p].signedEntry, "issued_at")),
                             proc[p].canonical)
  /\ Goto(p, "logged")
  /\ UNCHANGED << pure, script, keysJson, privateKeyB64, rotation, rotations, entriesDir, indexDir,
                  started, committed >>

\* createIndexEntry: fs.existsSync(indexPath) and JSON.parse(fs.readFileSync(indexPath));
\* JSON.parse throws on a file that does not parse, and main's catch ends the run.
ReadIndex_0(p) ==
  /\ At(p, "sign-and-append-0", "logged")
  /\ proc' = IF /\ Exists(indexDir, IndexPath(proc[p].signedEntry))
                /\ ~ParsesIndex(indexDir[IndexPath(proc[p].signedEntry)])
               THEN [proc EXCEPT ![p] = Failed("SyntaxError")]
               ELSE [proc EXCEPT ![p].pc = "indexRead",
                                 ![p].indexData =
                                    IF Exists(indexDir, IndexPath(proc[p].signedEntry))
                                      THEN indexDir[IndexPath(proc[p].signedEntry)]
                                      ELSE FreshIndex(proc[p].signedEntry)]
  /\ UNCHANGED << pure, script, keysJson, privateKeyB64, rotation, rotations, entriesDir, ledgerDir,
                  indexDir, started, committed >>

\* createIndexEntry: push unless included, write the file in either case; success
WriteIndex_0(p) ==
  /\ At(p, "sign-and-append-0", "indexRead")
  /\ LET entry_id == Field(proc[p].signedEntry, "entry_id")
         indexData == proc[p].indexData
     IN  indexDir' =
           WriteFile(indexDir, IndexPath(proc[p].signedEntry),
                     IF ~Includes(indexData.entry_ids, entry_id)
                       THEN [indexData EXCEPT !.entry_ids = Append(@, entry_id)]
                       ELSE indexData)
  /\ Succeed(p)
  /\ UNCHANGED << pure, script, keysJson, privateKeyB64, rotation, rotations, entriesDir, ledgerDir,
                  started >>

(***************************************************************************)
(* Key rotation (keys/README.md): generate a key pair, add the new key to  *)
(* keys.json, update `active`, update the secret; old keys stay.           *)
(***************************************************************************)
NewKeyId == KeyIds[rotations + 1]

NewKeyPair == KeyPairs[rotations + 1]

RotateAddKey ==
  /\ rotation = "none"
  /\ rotations < MaxRotations
  /\ rotations' = rotations + 1
  /\ keysJson' = [keysJson EXCEPT !.keys = WriteFile(@, KeyIds[rotations + 2],
                                                     KeyRecord(KeyPairs[rotations + 2]))]
  /\ rotation' = "added"
  /\ UNCHANGED << pure, script, privateKeyB64, entriesDir, ledgerDir, indexDir, proc, started, committed >>

RotateActive ==
  /\ rotation = "added"
  /\ keysJson' = [keysJson EXCEPT !.active = NewKeyId]
  /\ rotation' = "active"
  /\ UNCHANGED << pure, script, privateKeyB64, rotations, entriesDir, ledgerDir, indexDir, proc, started,
                  committed >>

RotateSecret ==
  /\ rotation = "active"
  /\ privateKeyB64' = SecretKey(NewKeyPair)
  /\ rotation' = "none"
  /\ UNCHANGED << pure, script, keysJson, rotations, entriesDir, ledgerDir, indexDir, proc, started,
                  committed >>

Next ==
  \/ \E p \in Procs :
       \/ Sign(p)
       \/ WriteEntryFile(p)
       \/ AppendLedger(p)
       \/ ReadIndex(p)
       \/ WriteIndex(p)
       \/ Sign_0(p)
       \/ WriteEntryFile_0(p)
       \/ AppendLedger_0(p)
       \/ ReadIndex_0(p)
       \/ WriteIndex_0(p)
  \/ RotateAddKey
  \/ RotateActive
  \/ RotateSecret

Spec == Init /\ [][Next]_vars

(***************************************************************************)
(* canonicalize applied on its own: SpecCanon draws an entry and applies   *)
(* the three copies of canonicalize to it.                                 *)
(***************************************************************************)
Reverse(seq) == [i \in 1..Len(seq) |-> seq[Len(seq) + 1 - i]]

\* An optional field: absent, or present with one of the values.
Optional(field, values) == {<<>>} \cup { << <<field, v>> >> : v \in values }

CanonEntries ==
  { IF reversed THEN Reverse(Base("E1", "abc") \o loc \o sc \o tg \o nt \o kid)
    ELSE Base("E1", "abc") \o loc \o sc \o tg \o nt \o kid :
      loc \in Optional("subject_locator", {Null, Str("https://x.example")}),
      sc \in Optional("scores", {Null, Obj(<<"repro", "7", "security", "8">>),
                                 Obj(<<"security", "8", "repro", "7">>)}),
      tg \in Optional("tags", {Arr(<<"b", "a">>), Arr(<<"a", "b">>)}),
      nt \in Optional("notes", {Str("seen")}),
      kid \in Optional("key_id", {Str("K1")}),
      reversed \in BOOLEAN }

\* Every variable of the ledger at rest; the functions applied on their own
\* leave them so.
AtRest ==
  /\ rotation = "none"
  /\ rotations = 0
  /\ entriesDir = NoFiles
  /\ ledgerDir = NoFiles
  /\ indexDir = NoFiles
  /\ proc = [p \in Procs |-> Idle]
  /\ started = 0
  /\ committed = NoFiles

InitCanon ==
  /\ script = "sign-and-append"
  /\ keysJson = [active |-> KeyIds[1], keys |-> [k \in {KeyIds[1]} |-> KeyRecord(KeyPairs[1])]]
  /\ privateKeyB64 = SecretKey(KeyPairs[1])
  /\ AtRest
  /\ pure \in { [NoPure EXCEPT !.stage = "input", !.input = e] : e \in CanonEntries }

Ledger == << script, keysJson, privateKeyB64, rotation, rotations, entriesDir, ledgerDir,
             indexDir, proc, started, committed >>

Canonicalize ==
  /\ pure.stage = "input"
  /\ pure' = [pure EXCEPT !.stage = "canonical",
                          !.canonical = << canonicalize(pure.input),
                                           canonicalize_0(pure.input),
                                           canonicalize_V(pure.input) >>]
  /\ UNCHANGED Ledger

NextCanon == Canonicalize

SpecCanon == InitCanon /\ [][NextCanon]_vars

(***************************************************************************)
(* Signing and verifying on their own: SpecSeal draws a payload, the       *)
(* installed script and a registry whose active key is the one the secret  *)
(* belongs to, seals the payload, verifies the sealed entry, and verifies  *)
(* a copy of it in which one field was changed, added or removed.          *)
(***************************************************************************)
SealPayloads ==
  { Base("E1", "abc") \o loc \o sc \o ext \o kid :
      loc \in Optional("subject_locator", {Null, Str("https://x.example")}),
      sc \in Optional("scores", {Obj(<<"security", "8", "repro", "7">>)}),
      ext \in Optional("tags", {Arr(<<"b", "a">>)})
                \cup Optional("business_legal_name", {Str("Acme"), Null}),
      kid \in Optional("key_id", {Str("K1")}) }

Registry(n) ==
  [active |-> KeyIds[n], keys |-> [k \in {KeyIds[i] : i \in 1..n} |->
      KeyRecord(KeyPairs[CHOOSE i \in 1..n : KeyIds[i] = k])]]

InitSeal ==
  /\ script \in Scripts
  /\ \E n \in 1..2 :
       /\ keysJson = Registry(n)
       /\ privateKeyB64 \in {SecretKey(KeyPairs[n]), Seed(KeyPairs[n])}
  /\ AtRest
  /\ pure \in { [NoPure EXCEPT !.stage = "input", !.input = e] : e \in SealPayloads }

Seal ==
  /\ pure.stage = "input"
  /\ LET sealed == IF script = "sign-and-append"
                     THEN SignPayload(pure.input, keysJson, privateKeyB64, FALSE)
                     ELSE SignPayload_0(pure.input, keysJson, privateKeyB64, FALSE)
     IN  pure' = [pure EXCEPT !.sealed = sealed,
                              !.stage = IF sealed.pc = "signed" THEN "sealed" ELSE "rejected"]
  /\ UNCHANGED Ledger

VerifySealed ==
  /\ pure.stage = "sealed"
  /\ pure' = [pure EXCEPT !.stage = "verified",
                          !.verdict = VerifyEntry(pure.sealed.signedEntry, keysJson)]
  /\ UNCHANGED Ledger

\* The values a field is changed to.
TamperValues ==
  << <<"entry_id", Str("E9")>>, <<"issued_at", Str(Day2)>>,
     <<"subject_type", Str("document")>>, <<"subject_ref", Str("evil")>>,
     <<"subject_locator", Str("https://evil.example")>>,
     <<"policy_version", Str("sv-9.9")>>, <<"result", Str("fail")>>,
     <<"scores", Obj(<<"repro", "10", "security", "10">>)>>,
     <<"report_hash", Str("sha256:ff")>>, <<"key_id", Str("K1")>>,
     <<"key_id", Str("K2")>>,
     <<"tags", Arr(<<"evil">>)>>, <<"business_legal_name", Str("Evil Corp")>>,
     <<"x_note", Str("evil")>> >>

\* The copies of `entry` that differ from it in one field other than signature:
\* the field's value changed, the field added, or the field removed.
Tamperings(entry) ==
  { t \in { Put(entry, TamperValues[i][1], TamperValues[i][2]) : i \in 1..Len(TamperValues) } :
      t # entry }
  \cup { Without(entry, entry[i][1]) : i \in { j \in 1..Len(entry) : entry[j][1] # "signature" } }

VerifyTampered ==
  /\ pure.stage = "verified"
  /\ \E t \in Tamperings(pure.sealed.signedEntry) :
       pure' = [pure EXCEPT !.stage = "tampered", !.tampered = t,
                            !.tamperedVerdict = VerifyEntry(t, keysJson)]
  /\ UNCHANGED Ledger

NextSeal == Seal \/ VerifySealed \/ VerifyTampered

SpecSeal == InitSeal /\ [][NextSeal]_vars

(***************************************************************************)
(* Claims                                                                  *)
(***************************************************************************)
\* C1 (checked under SpecSeal): every payload the installed script accepts and
\* seals under the active key is reported valid by verify.mjs against the same
\* registry.
C1_RoundTrip == pure.stage \in {"verified", "tampered"} => pure.verdict.code = 0

\* C2 (checked under SpecCanon): for every entry without a signature, canonicalize
\* of scripts/sign-and-append.mjs and canonicalize of verify.mjs return the same
\* string.
C2_SignVerifySymmetry ==
  (pure.stage = "canonical" /\ ~Has(pure.input, "signature"))
    => pure.canonical[1] = pure.canonical[3]

\* C3 (checked under SpecSeal): when a sealed entry verifies valid, every copy of it
\* with one field other than signature changed, added or removed is reported as a
\* signature mismatch.
C3_TamperDetection ==
  (pure.stage = "tampered" /\ pure.verdict.code = 0)
    => pure.tamperedVerdict.reason = "Signature verification failed"

\* C4: an entry_id is committed at most once; a second append for a stored
\* entry_id is rejected, so no entry_id has two runs that reported success.
C4_DuplicateRejected == \A e \in DOMAIN committed : committed[e] <= 1

\* C5: once entries/<entry_id>.json is written, no later step changes what it holds.
C5_Immutable ==
  [][\A e \in DOMAIN entriesDir : e \in DOMAIN entriesDir' /\ entriesDir'[e] = entriesDir[e]]_vars

\* The runner p is in a run that was started for an entry_id already stored.
InDuplicateRun(p) ==
  proc[p].existed /\ proc[p].pc \in {"signed", "written", "logged", "indexRead"}

DuplicateWritesNothing ==
  \A p \in Procs :
    (InDuplicateRun(p) /\ proc'[p] # proc[p])
      => (ledgerDir' = ledgerDir /\ indexDir' = indexDir)

NoTwoLogLines ==
  \A d1 \in DOMAIN ledgerDir, d2 \in DOMAIN ledgerDir :
    \A i \in 1..Len(ledgerDir[d1]), j \in 1..Len(ledgerDir[d2]) :
      (d1 # d2 \/ i # j)
        => Get(ledgerDir[d1][i], "entry_id") # Get(ledgerDir[d2][j], "entry_id")

\* C6: a run started for an entry_id that already has a stored record adds no
\* line to a daily log and creates or changes no index file, and no two lines
\* of the daily logs carry the same entry_id.
C6_DuplicateWritesNothing == [][DuplicateWritesNothing]_vars /\ []NoTwoLogLines

\* C7: in every state reached by appends and rotation steps, verify.mjs reports
\* every stored entry valid against the current keys.json.
C7_StoredEntriesVerify == \A e \in DOMAIN entriesDir : Valid(entriesDir[e], keysJson)

\* C8: a rotation step (adding the new key record, repointing `active`) keeps every
\* stored entry that verified valid before it valid, leaves the previously active
\* key and the new active key resolvable, and the outcome of verify is the same
\* whatever key `active` names.
RotationKeepsVerdicts ==
  keysJson' # keysJson =>
    /\ \A e \in DOMAIN entriesDir :
         Valid(entriesDir[e], keysJson) => Valid(entriesDir[e], keysJson')
    /\ keysJson.active \in DOMAIN keysJson'.keys
    /\ keysJson'.active \in DOMAIN keysJson'.keys
    /\ \A e \in DOMAIN entriesDir, k \in DOMAIN keysJson'.keys :
         VerifyEntry(entriesDir[e], [keysJson' EXCEPT !.active = k])
           = VerifyEntry(entriesDir[e], keysJson')

C8_RotationSafety == [][RotationKeepsVerdicts]_vars

\* C8 witness: `active` was repointed to the new key and an entry sealed under
\* the previous key is stored and valid.
C8_Witness ==
  /\ keysJson.active = KeyIds[2]
  /\ \E e \in DOMAIN entriesDir :
       /\ Get(entriesDir[e], "key_id") = Str(KeyIds[1])
       /\ Valid(entriesDir[e], keysJson)

\* C9: the key_id of every stored entry is a key of keys.json.
C9_KeyIdResolves ==
  \A e \in DOMAIN entriesDir : Text(Get(entriesDir[e], "key_id")) \in DOMAIN keysJson.keys

\* C10: when two runs for distinct entry_ids and the same subject_ref have both
\* finished, the index file of that subject_ref lists both entry_ids.
C10_NoLostIndexInsertion ==
  \A p \in Procs, q \in Procs :
    LET a == proc[p].signedEntry
        b == proc[q].signedEntry
    IN  ( /\ p # q
          /\ proc[p].pc = "done"
          /\ proc[q].pc = "done"
          /\ Get(a, "entry_id") # Get(b, "entry_id")
          /\ Get(a, "subject_ref") = Get(b, "subject_ref") )
        => /\ Exists(indexDir, IndexPath(a))
           /\ Includes(indexDir[IndexPath(a)].entry_ids, Field(a, "entry_id"))
           /\ Includes(indexDir[IndexPath(a)].entry_ids, Field(b, "entry_id"))

\* The runner p has written its entry file in a run that began while no record
\* was stored for its entry_id.
WroteAsNew(p) ==
  ~proc[p].existed /\ proc[p].pc \in {"written", "logged", "indexRead", "done"}

\* C11: of two runs for the same entry_id that both began before the record was
\* stored, at most one writes the entry file and goes on to success; the other
\* is rejected.
C11_ConcurrentDuplicate ==
  \A p \in Procs, q \in Procs :
    (p # q /\ WroteAsNew(p) /\ WroteAsNew(q))
      => Get(proc[p].signedEntry, "entry_id") # Get(proc[q].signedEntry, "entry_id")

\* The line a run appends to the daily log.
LogLine(p) ==
  IF script = "sign-and-append" THEN proc[p].signedEntry ELSE proc[p].canonical

LogName(p) == DateStr(Field(proc[p].signedEntry, "issued_at"))

\* A step that appends to a daily log adds the complete line of the run at the
\* end of that log and leaves every line already there, and every other log, as
\* it was.
AppendsOneLine ==
  \A p \in Procs :
    (proc[p].pc = "written" /\ proc'[p].pc = "logged")
      => /\ LogName(p) \in DOMAIN ledgerDir'
         /\ ledgerDir'[LogName(p)] =
              (IF LogName(p) \in DOMAIN ledgerDir THEN ledgerDir[LogName(p)] ELSE <<>>)
                \o <<LogLine(p)>>
         /\ \A d \in DOMAIN ledgerDir : d # LogName(p) => ledgerDir'[d] = ledgerDir[d]

\* C12: the append to the daily log is atomic: each append adds exactly one
\* complete line at the end, so concurrent appends lose no line and mix none.
C12_LogAppendAtomic == [][AppendsOneLine]_vars

\* C12 witness: two runs for distinct entry_ids and the same date were between
\* their entry-file write and their index update at the same time, and the
\* daily log holds the lines of both.
C12_Witness ==
  /\ proc["p1"].pc = "logged" /\ proc["p2"].pc = "logged"
  /\ Get(proc["p1"].signedEntry, "entry_id") # Get(proc["p2"].signedEntry, "entry_id")
  /\ LogName("p1") = LogName("p2")
  /\ Len(ledgerDir[LogName("p1")]) = 2
  /\ Includes(ledgerDir[LogName("p1")], LogLine("p1"))
  /\ Includes(ledgerDir[LogName("p1")], LogLine("p2"))

\* The values of one field in two entries are the same: equal, or, for two
\* scores objects, the same categories with the same scores.
SameValue(va, vb) ==
  IF va[1] = "obj" /\ vb[1] = "obj"
    THEN { <<ObjKeys(va)[i], ObjGet(va, ObjKeys(va)[i])>> : i \in 1..Len(ObjKeys(va)) }
           = { <<ObjKeys(vb)[i], ObjGet(vb, ObjKeys(vb)[i])>> : i \in 1..Len(ObjKeys(vb)) }
    ELSE va = vb

\* Two entries have the same fields with the same values, whatever the order
\* of the fields and of the keys inside scores.
SameEntry(a, b) ==
  /\ { a[i][1] : i \in 1..Len(a) } = { b[i][1] : i \in 1..Len(b) }
  /\ \A i \in 1..Len(a) : SameValue(a[i][2], Get(b, a[i][1]))

\* C13 (checked under SpecCanon): every entry that has the same fields and
\* values as the canonicalized one, in another field order or another key order
\* inside scores, canonicalizes to the identical string, in each copy of
\* canonicalize.
C13_Deterministic ==
  pure.stage = "canonical" =>
    \A e \in CanonEntries :
      SameEntry(pure.input, e) =>
        pure.canonical = << canonicalize(e), canonicalize_0(e), canonicalize_V(e) >>

\* C13 witness: an entry with scores was canonicalized and another entry with
\* the fields reversed and the scores keys in another order is the same entry.
C13_Witness ==
  /\ pure.stage = "canonical"
  /\ Has(pure.input, "scores")
  /\ \E e \in CanonEntries :
       /\ SameEntry(pure.input, e)
       /\ Keys(e) # Keys(pure.input)
       /\ Get(e, "scores") # Get(pure.input, "scores")

(***************************************************************************)
(* Sequential use: SpecSequential is Spec with one runner, whose runs       *)
(* follow one another, and the rotation steps.                              *)
(***************************************************************************)
NextSequential ==
  \/ Sign("p1")
  \/ WriteEntryFile("p1")
  \/ AppendLedger("p1")
  \/ ReadIndex("p1")
  \/ WriteIndex("p1")
  \/ Sign_0("p1")
  \/ WriteEntryFile_0("p1")
  \/ AppendLedger_0("p1")
  \/ ReadIndex_0("p1")
  \/ WriteIndex_0("p1")
  \/ RotateAddKey
  \/ RotateActive
  \/ RotateSecret

SpecSequential == Init /\ [][NextSequential]_vars

\* Lookup by subject reference (README): the entry_ids of the index file named
\* by the SHA-256 hash of subject_ref, none when there is no such file.
LookupBySubjectRef(subject_ref) ==
  IF Exists(indexDir, Sha256Hex(subject_ref))
    THEN indexDir[Sha256Hex(subject_ref)].entry_ids
    ELSE <<>>

\* The i-th line of the daily log d was appended by a run that has finished:
\* every line but the one the run in progress has just appended.
FinishedLine(d, i) ==
  ~ /\ proc["p1"].pc \in {"logged", "indexRead"}
    /\ d = LogName("p1")
    /\ i = Len(ledgerDir[d])

\* C14 (checked under SpecSequential): for every append that has succeeded,
\* lookup by its subject_ref returns a list containing its entry_id, then and
\* after every later sequential append.
C14_LookupAfterAppend ==
  \A d \in DOMAIN ledgerDir :
    \A i \in 1..Len(ledgerDir[d]) :
      FinishedLine(d, i) =>
        Includes(LookupBySubjectRef(Field(ledgerDir[d][i], "subject_ref")),
                 Field(ledgerDir[d][i], "entry_id"))

\* C14 witness: two appends for one subject_ref have succeeded one after the
\* other and lookup returns both entry_ids.
C14_Witness ==
  /\ proc["p1"].pc = "done"
  /\ LookupBySubjectRef("abc") = <<"E1", "E2">>

\* No index file lists an entry_id twice.
IndexNoDuplicates ==
  \A f \in DOMAIN indexDir :
    \A i \in 1..Len(indexDir[f].entry_ids), j \in 1..Len(indexDir[f].entry_ids) :
      i # j => indexDir[f].entry_ids[i] # indexDir[f].entry_ids[j]

\* The daily log d has a line for entry_id e with subject_ref s.
IsLineOf(d, i, e, s) ==
  /\ Field(ledgerDir[d][i], "entry_id") = e
  /\ Field(ledgerDir[d][i], "subject_ref") = s

\* The place of the first such line, 0 when the log has none.
FirstLine(d, e, s) ==
  IF \E i \in 1..Len(ledgerDir[d]) : IsLineOf(d, i, e, s)
    THEN CHOOSE i \in 1..Len(ledgerDir[d]) :
           IsLineOf(d, i, e, s) /\ \A j \in 1..(i - 1) : ~IsLineOf(d, j, e, s)
    ELSE 0

\* Two entry_ids of an index file that were appended to the same daily log are
\* listed in the order of their lines there.
IndexOrderedByAppend ==
  \A f \in DOMAIN indexDir, d \in DOMAIN ledgerDir :
    LET ids == indexDir[f].entry_ids
        s == indexDir[f].subject_ref
    IN  \A i \in 1..Len(ids), j \in 1..Len(ids) :
          (i < j /\ FirstLine(d, ids[i], s) > 0 /\ FirstLine(d, ids[j], s) > 0)
            => FirstLine(d, ids[i], s) < FirstLine(d, ids[j], s)

\* C15: in every state no index file lists an entry_id twice, and the entry_ids
\* of an index file are in the order in which the entries were appended.
C15_IndexDedupOrdered == IndexNoDuplicates /\ IndexOrderedByAppend

\* The runs that have reported success, over all entry_ids.
RECURSIVE Successes(_)
Successes(ids) ==
  IF ids = {} THEN 0
  ELSE LET e == CHOOSE x \in ids : TRUE
       IN  committed[e] + Successes(ids \ {e})

\* No run is in progress and every run begun so far has reported success.
AllAppendsSucceeded ==
  /\ \A p \in Procs : proc[p].pc \in {"idle", "done"}
  /\ Successes(DOMAIN committed) = started

\* The subject_refs that an index file or a stored entry names.
SubjectRefs ==
  { indexDir[f].subject_ref : f \in DOMAIN indexDir }
    \cup { Field(entriesDir[e], "subject_ref") : e \in DOMAIN entriesDir }

\* The index rebuilt by replaying the stored entries.
Replay(subject_ref) ==
  { e \in DOMAIN entriesDir : Field(entriesDir[e], "subject_ref") = subject_ref }

\* C16: when no append is in progress and every append so far has reported
\* success, the entry_ids that lookup returns for a subject_ref are exactly the
\* entry_ids of the stored entries with that subject_ref.
C16_IndexEqualsReplay ==
  AllAppendsSucceeded =>
    \A s \in SubjectRefs :
      { LookupBySubjectRef(s)[i] : i \in 1..Len(LookupBySubjectRef(s)) } = Replay(s)

(***************************************************************************)
(* verify.mjs on its own: SpecVerify draws an entry file (a sealed entry,   *)
(* or one whose signature, key_id or result was removed or changed) and a   *)
(* keys.json, and runs verify.mjs on them.                                  *)
(***************************************************************************)
SealedBase ==
  SignPayload(Base("E1", "abc"), Registry(1), SecretKey(KeyPairs[1]), FALSE).signedEntry

Keep == <<"keep">>

\* The entry with one field kept, removed (undefined) or set to a value.
Variant(entry, field, v) ==
  IF v = Keep THEN entry
  ELSE IF v = Undefined THEN Without(entry, field)
  ELSE Put(entry, field, v)

VerifyEntries ==
  { Variant(Variant(Variant(SealedBase, "signature", sg), "key_id", kid), "result", r) :
      sg \in {Keep, Undefined, Null, Str(""), Str("AAAA"),
              Str(SignDetached("{}", SecretKey(KeyPairs[1])))},
      kid \in {Keep, Undefined, Null, Str(""), Str(KeyIds[2]), Str("K9")},
      r \in {Keep, Str("fail")} }

\* keys.json: one or two Ed25519 keys, a second key of another type, the only
\* key of another type, and a public key that is not 32 bytes long.
VerifyRegistries ==
  { Registry(1),
    Registry(2),
    [Registry(1) EXCEPT !.keys = WriteFile(@, KeyIds[2],
        [type |-> "rsa", publicKeyBase64 |-> PublicKeyBase64(KeyPairs[2])])],
    [Registry(1) EXCEPT !.keys = WriteFile(@, KeyIds[1],
        [type |-> "rsa", publicKeyBase64 |-> PublicKeyBase64(KeyPairs[1])])],
    [Registry(1) EXCEPT !.keys = WriteFile(@, KeyIds[1],
        [type |-> "ed25519", publicKeyBase64 |-> "AAAA"])] }

InitVerify ==
  /\ script = "sign-and-append"
  /\ keysJson \in VerifyRegistries
  /\ privateKeyB64 = SecretKey(KeyPairs[1])
  /\ AtRest
  /\ pure \in { [NoPure EXCEPT !.stage = "input", !.input = e] : e \in VerifyEntries }

Verify ==
  /\ pure.stage = "input"
  /\ pure' = [pure EXCEPT !.stage = "verified",
                          !.verdict = VerifyEntry(pure.input, keysJson)]
  /\ UNCHANGED Ledger

NextVerify == Verify

SpecVerify == InitVerify /\ [][NextVerify]_vars

MissingField(entry) == ~Truthy(Get(entry, "signature")) \/ ~Truthy(Get(entry, "key_id"))

KnownKey(entry, keysData) ==
  Get(entry, "key_id")[1] = "str" /\ Get(entry, "key_id")[2] \in DOMAIN keysData.keys

SignatureChecked(outcome) ==
  outcome.reason \in {"valid", "Signature verification failed",
                      "throw:Invalid public key length", "throw:Invalid signature length"}

\* C17 (checked under SpecVerify): verify.mjs rejects an entry without
\* signature or key_id as a missing field, with the same outcome whatever
\* keys.json holds; otherwise it rejects a key_id that keys.json does not have
\* as unknown; otherwise it rejects a key record whose type is not ed25519 as
\* unsupported; it checks the signature only when none of the three applies.
C17_RejectionOrder ==
  pure.stage = "verified" =>
    LET entry == pure.input
        outcome == pure.verdict
    IN  IF MissingField(entry)
          THEN /\ outcome.reason \in {"Entry missing signature field",
                                      "Entry missing key_id field"}
               /\ \A r \in VerifyRegistries : VerifyEntry(entry, r) = outcome
        ELSE IF ~KnownKey(entry, keysJson)
          THEN outcome.reason = "Key ID not found in keys.json"
        ELSE IF keysJson.keys[Field(entry, "key_id")].type # "ed25519"
          THEN outcome.reason = "Unsupported key type"
        ELSE SignatureChecked(outcome)

\* C17 witness: an entry whose signature does not match and whose key record is
\* of another type was rejected as unsupported, not as a signature mismatch.
C17_Witness ==
  /\ pure.stage = "verified"
  /\ pure.verdict.reason = "Unsupported key type"
  /\ Get(pure.input, "signature") # Get(SealedBase, "signature")

\* C18 (checked under SpecVerify): every outcome of verify.mjs carries a
\* validity boolean, the entry identifier and the key identifier used, and a
\* failing outcome for a structural failure (missing field, unknown key,
\* unsupported key type) never carries the reason of a signature mismatch.
C18_OutcomeFields ==
  pure.stage = "verified" =>
    LET entry == pure.input
        outcome == pure.verdict
        structural == \/ MissingField(entry)
                      \/ ~KnownKey(entry, keysJson)
                      \/ keysJson.keys[Field(entry, "key_id")].type # "ed25519"
    IN  /\ Has(outcome.printed, "valid")
        /\ Has(outcome.printed, "entry_id")
        /\ Has(outcome.printed, "key_id")
        /\ outcome.code # 0 =>
             /\ outcome.reason # "valid"
             /\ structural => outcome.reason # "Signature verification failed"

(***************************************************************************)
(* One run of sign-and-append from its command line: SpecConfig draws the   *)
(* installed script, keys.json (with or without a record for the active     *)
(* key), the secret (unset, 16, 32 or 64 bytes) and the argument (none, not *)
(* JSON, or the JSON text of a payload), and runs the script once.          *)
(***************************************************************************)
ConfigPayloads ==
  { Base("E1", "abc"),
    Without(Base("E2", "xyz"), "report_hash"),
    Without(Base("E2", "abc"), "result") }

\* process.argv[2] when no argument is given: undefined, falsy like "".
NoArgument == ""

Arguments == {NoArgument, "{not json"} \cup { JSONstringify(o) : o \in ConfigPayloads }

\* JSON.parse(payloadJson) returns the object the text denotes, or throws.
Parses(payloadJson) == \E o \in ConfigPayloads : JSONstringify(o) = payloadJson

JSONparse(payloadJson) == CHOOSE o \in ConfigPayloads : JSONstringify(o) = payloadJson

Unset == [bytes |-> 0, pair |-> ""]

ShortKey(pair) == [bytes |-> 16, pair |-> pair]

ConfigKeys == {Unset, ShortKey(KeyPairs[1]), Seed(KeyPairs[1]), SecretKey(KeyPairs[1])}

ConfigRegistries == {Registry(1), [Registry(1) EXCEPT !.active = KeyIds[2]]}

\* main of scripts/sign-and-append.mjs from the argument to the signed entry.
Main(payloadJson, keysRegistry, privateKey, entries) ==
  IF payloadJson = NoArgument THEN Failed("Usage")
  ELSE IF ~Parses(payloadJson) THEN Failed("Invalid JSON payload")
  ELSE SignPayload(JSONparse(payloadJson), keysRegistry, privateKey,
                   Exists(entries, Text(Get(JSONparse(payloadJson), "entry_id"))))

\* main of the earlier script from the argument to the signed entry.
Main_0(payloadJson, keysData, privateKey, entries) ==
  IF payloadJson = NoArgument THEN Failed("Usage")
  ELSE IF ~Parses(payloadJson) THEN Failed("SyntaxError")
  ELSE SignPayload_0(JSONparse(payloadJson), keysData, privateKey,
                     Exists(entries, Text(Get(JSONparse(payloadJson), "entry_id"))))

InitConfig ==
  /\ script \in Scripts
  /\ keysJson \in ConfigRegistries
  /\ privateKeyB64 \in ConfigKeys
  /\ AtRest
  /\ pure \in { [NoPure EXCEPT !.stage = "argv", !.input = a] : a \in Arguments }

RunMain(p) ==
  /\ script = "sign-and-append"
  /\ pure.stage = "argv"
  /\ proc[p].pc = "idle"
  /\ proc' = [proc EXCEPT ![p] = Main(pure.input, keysJson, privateKeyB64, entriesDir)]
  /\ pure' = [pure EXCEPT !.stage = "run"]
  /\ started' = started + 1
  /\ UNCHANGED << script, keysJson, privateKeyB64, rotation, rotations, entriesDir, ledgerDir,
                  indexDir, committed >>

RunMain_0(p) ==
  /\ script = "sign-and-append-0"
  /\ pure.stage = "argv"
  /\ proc[p].pc = "idle"
  /\ proc' = [proc EXCEPT ![p] = Main_0(pure.input, keysJson, privateKeyB64, entriesDir)]
  /\ pure' = [pure EXCEPT !.stage = "run"]
  /\ started' = started + 1
  /\ UNCHANGED << script, keysJson, privateKeyB64, rotation, rotations, entriesDir, ledgerDir,
                  indexDir, committed >>

NextConfig ==
  \/ RunMain("p1")
  \/ WriteEntryFile("p1")
  \/ AppendLedger("p1")
  \/ ReadIndex("p1")
  \/ WriteIndex("p1")
  \/ RunMain_0("p1")
  \/ WriteEntryFile_0("p1")
  \/ AppendLedger_0("p1")
  \/ ReadIndex_0("p1")
  \/ WriteIndex_0("p1")

SpecConfig == InitConfig /\ [][NextConfig]_vars

\* The run has an argument that parses to a payload the schema accepts, and
\* keys.json has a record for its active key.
OnlyTheKeyDecides ==
  /\ pure.stage = "run"
  /\ Parses(pure.input)
  /\ keysJson.active \in DOMAIN keysJson.keys
  /\ validateEntry(IF script = "sign-and-append"
                     THEN AutoReportHash(StampKeyId(JSONparse(pure.input), keysJson.active))
                     ELSE StampKeyId(JSONparse(pure.input), keysJson.active))

\* C19 (checked under SpecConfig): with a private key of 32 bytes or of 64
\* bytes the signer signs, and the signature is the one of the expanded key
\* of that key pair in both cases; with a key of any other length the run
\* fails.
C19_PrivateKeyFormat ==
  OnlyTheKeyDecides =>
    IF privateKeyB64.bytes \in {32, 64}
      THEN /\ proc["p1"].pc # "failed"
           /\ Field(proc["p1"].signedEntry, "signature")
                = SignDetached(JSONstringify(proc["p1"].canonical),
                               SecretKey(privateKeyB64.pair))
      ELSE proc["p1"].pc = "failed"

\* The run's argument does not parse or parses to a payload the schema
\* rejects, keys.json has no record for its active key, or the secret is unset
\* or neither 32 nor 64 bytes long.
StructuralOrConfigError ==
  \/ ~Parses(pure.input)
  \/ ~validateEntry(IF script = "sign-and-append"
                      THEN AutoReportHash(StampKeyId(JSONparse(pure.input), keysJson.active))
                      ELSE StampKeyId(JSONparse(pure.input), keysJson.active))
  \/ keysJson.active \notin DOMAIN keysJson.keys
  \/ privateKeyB64.bytes \notin {32, 64}

\* C20 (checked under SpecConfig): a run whose payload fails parsing or schema
\* validation, whose active key is not in keys.json, or whose private key is
\* unset or of an unsupported length ends in failure, and there is no entry
\* file, no log line and no index file.
C20_NeverPartiallyApplied ==
  (pure.stage = "run" /\ StructuralOrConfigError) =>
    /\ proc["p1"].pc = "failed"
    /\ entriesDir = NoFiles
    /\ ledgerDir = NoFiles
    /\ indexDir = NoFiles

(***************************************************************************)
(* Storage failures: SpecStorage has the two runners of Spec, no key        *)
(* rotation, writes that fail and runs that are interrupted.                *)
(* A writeFileSync that fails leaves the file as it was, or empty when the  *)
(* file was opened before the failure; a failed appendFileSync leaves the   *)
(* log as it was.  The error reaches main's catch, which reports it and     *)
(* exits 1.                                                                 *)
(***************************************************************************)
InRun(p) == proc[p].pc \in {"signed", "written", "logged", "indexRead"}

\* The run's index update writes the index file.
WritesIndex(p) ==
  \/ script = "sign-and-append-0"
  \/ ~Includes(proc[p].indexData.entry_ids, Field(proc[p].signedEntry, "entry_id"))

FailWriteEntryFile(p) ==
  /\ proc[p].pc = "signed"
  /\ entriesDir' \in {entriesDir,
                       WriteFile(entriesDir, Field(proc[p].signedEntry, "entry_id"),
                                 TruncatedEntry)}
  /\ proc' = [proc EXCEPT ![p] = Failed("EIO")]
  /\ UNCHANGED << pure, script, keysJson, privateKeyB64, rotation, rotations, ledgerDir, indexDir,
                  started, committed >>

FailAppendLedger(p) ==
  /\ proc[p].pc = "written"
  /\ proc' = [proc EXCEPT ![p] = Failed("EIO")]
  /\ UNCHANGED << pure, script, keysJson, privateKeyB64, rotation, rotations, entriesDir, ledgerDir,
                  indexDir, started, committed >>

\* An index write that fails and whose error is dropped: the run reports success.
FailWriteIndex_Swallowed(p) ==
  /\ proc[p].pc = "indexRead"
  /\ WritesIndex(p)
  /\ indexDir' \in {indexDir,
                     WriteFile(indexDir, IndexPath(proc[p].signedEntry), TruncatedIndex)}
  /\ Succeed(p)
  /\ UNCHANGED << pure, script, keysJson, privateKeyB64, rotation, rotations, entriesDir, ledgerDir,
                  started >>

FailWriteIndex(p) ==
  /\ proc[p].pc = "indexRead"
  /\ WritesIndex(p)
  /\ indexDir' \in {indexDir,
                     WriteFile(indexDir, IndexPath(proc[p].signedEntry), TruncatedIndex)}
  /\ proc' = [proc EXCEPT ![p] = Failed("EIO")]
  /\ UNCHANGED << pure, script, keysJson, privateKeyB64, rotation, rotations, entriesDir, ledgerDir,
                  started, committed >>

\* The process is killed between two of its steps: nothing more is written and
\* nothing is reported.
Interrupt(p) ==
  /\ InRun(p)
  /\ proc' = [proc EXCEPT ![p] = Failed("SIGKILL")]
  /\ UNCHANGED << pure, script, keysJson, privateKeyB64, rotation, rotations, entriesDir, ledgerDir,
                  indexDir, started, committed >>

NextStorage ==
  \/ \E p \in Procs :
       \/ Sign(p)
       \/ WriteEntryFile(p)
       \/ AppendLedger(p)
       \/ ReadIndex(p)
       \/ WriteIndex(p)
       \/ Sign_0(p)
       \/ WriteEntryFile_0(p)
       \/ AppendLedger_0(p)
       \/ ReadIndex_0(p)
       \/ WriteIndex_0(p)
       \/ FailWriteEntryFile(p)
       \/ FailAppendLedger(p)
       \/ FailWriteIndex(p)
       \/ Interrupt(p)

SpecStorage == Init /\ [][NextStorage]_vars

\* In this step the run of p reports success.
ReportsSuccess(p) == proc[p].pc # "done" /\ proc'[p].pc = "done"

\* The three writes of the run of p are complete after this step: the entry
\* file exists, the day's log has the run's line, and the index file has the
\* entry_id, written by this step or found there when the run read the file.
WritesComplete(p) ==
  LET entry_id == Field(proc[p].signedEntry, "entry_id")
      path == IndexPath(proc[p].signedEntry)
  IN  /\ proc[p].pc = "indexRead"
      /\ Exists(entriesDir', entry_id)
      /\ Exists(ledgerDir', LogName(p))
      /\ Includes(ledgerDir'[LogName(p)], LogLine(p))
      /\ \/ Includes(proc[p].indexData.entry_ids, entry_id)
         \/ /\ Exists(indexDir', path)
            /\ indexDir'[path] = [proc[p].indexData EXCEPT !.entry_ids = Append(@, entry_id)]

\* In this step a write of the run of p fails.
WriteFails(p) == InRun(p) /\ proc'[p].pc = "failed" /\ proc'[p].error = "EIO"

NoFalseSuccess ==
  \A p \in Procs :
    /\ ReportsSuccess(p) => WritesComplete(p)
    /\ WriteFails(p) => committed' = committed

\* C21 (checked under SpecStorage): a run reports success only in the step that
\* completes its index update, after its entry file and its log line were
\* written; a run one of whose writes fails ends failed and reports no success.
C21_NoFalseSuccess == [][NoFalseSuccess]_vars

\* C21 witness: a run whose index write failed after its entry file and log
\* line were written has ended failed, and no success was reported.
C21_Witness ==
  \E p \in Procs :
    /\ proc[p].pc = "failed"
    /\ proc[p].error = "EIO"
    /\ ledgerDir # NoFiles
    /\ committed = NoFiles

\* The entry_ids that appear in a line of a daily log.
LoggedIds ==
  UNION { { Field(ledgerDir[d][i], "entry_id") : i \in 1..Len(ledgerDir[d]) } :
          d \in DOMAIN ledgerDir }

\* The entry_ids that appear in an index file.
IndexedIds ==
  UNION { { indexDir[h].entry_ids[i] : i \in 1..Len(indexDir[h].entry_ids) } :
          h \in DOMAIN indexDir }

\* entries/<entry_id>.json exists.
HasEntryFile(entry_id) == Exists(entriesDir, entry_id)

\* entries/<entry_id>.json holds a sealed entry of that entry_id.
HasStoredRecord(entry_id) ==
  /\ Exists(entriesDir, entry_id)
  /\ entriesDir[entry_id] # TruncatedEntry
  /\ Get(entriesDir[entry_id], "entry_id") = Str(entry_id)
  /\ Has(entriesDir[entry_id], "signature")

\* C22 (checked under SpecStorage): in every reachable state, after failed and
\* interrupted runs too, every entry_id that appears in a daily log or in an
\* index file has a stored per-entry record.
C22_CommitPoint == \A entry_id \in LoggedIds \cup IndexedIds : HasStoredRecord(entry_id)

\* Every entry_id an index file lists before the step is listed by the same
\* file after it.
IndexKeepsMembers ==
  \A h \in DOMAIN indexDir :
    /\ h \in DOMAIN indexDir'
    /\ \A i \in 1..Len(indexDir[h].entry_ids) :
         Includes(indexDir'[h].entry_ids, indexDir[h].entry_ids[i])

\* C23: no step of an append removes an entry_id from an index file.
C23_IndexMonotone == [][IndexKeepsMembers]_vars

\* The line is the canonical form of its entry, by the canonicalize of the
\* installed script, followed by the signature.
CanonicalPlusSignature(line) ==
  /\ Has(line, "signature")
  /\ line[Len(line)][1] = "signature"
  /\ Without(line, "signature")
       = IF script = "sign-and-append" THEN canonicalObject(Without(line, "signature"))
         ELSE canonicalObject_0(Without(line, "signature"))

\* C24: every line of every daily log carries the signature field, and its
\* other fields are the canonical form of the entry, in canonical order.
C24_LogLineContent ==
  \A d \in DOMAIN ledgerDir :
    \A i \in 1..Len(ledgerDir[d]) : CanonicalPlusSignature(ledgerDir[d][i])

(***************************************************************************)
(* Late appends: SpecLate has one runner and a calendar.  The day of the    *)
(* wall clock advances between runs; the payloads carry timestamps in UTC   *)
(* and with offsets from UTC.                                               *)
(***************************************************************************)
Days == <<"2026-02-01", "2026-02-02", "2026-02-03">>

Stamps ==
  { Day1, Day2, "2026-02-01T23:30:00.000-05:00", "2026-02-02T01:00:00.000+05:00",
    "2026-02-28T23:00:00.000-02:00" }

LatePayloads ==
  { Put(Base(id, "abc"), "issued_at", Str(t)) : id \in {"E1", "E2"}, t \in Stamps }

InitLate ==
  /\ script \in Scripts
  /\ keysJson = Registry(1)
  /\ privateKeyB64 = SecretKey(KeyPairs[1])
  /\ AtRest
  /\ pure = [NoPure EXCEPT !.stage = "clock", !.input = Days[1]]

Today == pure.input

\* Midnight UTC passes while no run is under way.
Tick ==
  /\ proc["p1"].pc \in {"idle", "done", "failed"}
  /\ \E i \in 1..(Len(Days) - 1) :
       /\ Today = Days[i]
       /\ pure' = [pure EXCEPT !.input = Days[i + 1]]
  /\ UNCHANGED Ledger

SignLate(p) ==
  /\ script = "sign-and-append"
  /\ CanStart(p)
  /\ \E payload \in LatePayloads :
       proc' = [proc EXCEPT ![p] =
                  SignPayload(payload, keysJson, privateKeyB64,
                              Exists(entriesDir, Text(Get(payload, "entry_id"))))]
  /\ started' = started + 1
  /\ UNCHANGED << pure, script, keysJson, privateKeyB64, rotation, rotations, entriesDir, ledgerDir,
                  indexDir, committed >>

SignLate_0(p) ==
  /\ script = "sign-and-append-0"
  /\ CanStart(p)
  /\ \E payload \in LatePayloads :
       proc' = [proc EXCEPT ![p] =
                  SignPayload_0(payload, keysJson, privateKeyB64,
                                Exists(entriesDir, Text(Get(payload, "entry_id"))))]
  /\ started' = started + 1
  /\ UNCHANGED << pure, script, keysJson, privateKeyB64, rotation, rotations, entriesDir, ledgerDir,
                  indexDir, committed >>

NextLate ==
  \/ Tick
  \/ SignLate("p1")
  \/ WriteEntryFile("p1")
  \/ AppendLedger("p1")
  \/ ReadIndex("p1")
  \/ WriteIndex("p1")
  \/ SignLate_0("p1")
  \/ WriteEntryFile_0("p1")
  \/ AppendLedger_0("p1")
  \/ ReadIndex_0("p1")
  \/ WriteIndex_0("p1")

SpecLate == InitLate /\ [][NextLate]_vars

\* The UTC calendar date of the instant each timestamp denotes.
UTCDate(issued_at) ==
  CASE issued_at = Day1 -> "2026-02-01"
    [] issued_at = Day2 -> "2026-02-02"
    [] issued_at = "2026-02-01T23:30:00.000-05:00" -> "2026-02-02"
    [] issued_at = "2026-02-02T01:00:00.000+05:00" -> "2026-02-01"
    [] issued_at = "2026-02-28T23:00:00.000-02:00" -> "2026-03-01"

\* The step is the log append of the run of p1, and the only log it changes
\* is the one of the UTC date of the entry's issued_at, which gets the line.
AppendsToIssuedDay ==
  (proc["p1"].pc = "written" /\ proc'["p1"].pc = "logged") =>
    LET bucket == UTCDate(Field(proc["p1"].signedEntry, "issued_at"))
    IN  /\ Exists(ledgerDir', bucket)
        /\ ledgerDir'[bucket][Len(ledgerDir'[bucket])] = LogLine("p1")
        /\ \A d \in DOMAIN ledgerDir' :
             d # bucket => (Exists(ledgerDir, d) /\ ledgerDir'[d] = ledgerDir[d])

\* C25 (checked under SpecLate): whatever the day of the write, the log a run
\* appends to is the one named by the UTC calendar date of the entry's
\* issued_at, and no other log changes.
C25_LogBucket == [][AppendsToIssuedDay]_vars

\* C25 witness: on 2026-02-03 a run has appended an entry issued at 23:30 of
\* 2026-02-01 at UTC-5 to the log of 2026-02-02, and no log of 2026-02-03 exists.
C25_Witness ==
  /\ Today = Days[3]
  /\ proc["p1"].pc = "logged"
  /\ Field(proc["p1"].signedEntry, "issued_at") = "2026-02-01T23:30:00.000-05:00"
  /\ DOMAIN ledgerDir = {"2026-02-02"}

\* The fields of the input in their order, then key_id if the input had none.
InputPlusKeyId(payload, sealed) ==
  IF Has(payload, "key_id") THEN payload
  ELSE Append(payload, <<"key_id", Get(sealed, "key_id")>>)

\* C26 (checked under SpecConfig): the sealed entry of a run is the input
\* entry, field for field and value for value, followed by key_id when the
\* input had none, followed by signature as the last field.
C26_SealedEntryFields ==
  (pure.stage = "run" /\ proc["p1"].pc # "failed") =>
    LET payload == JSONparse(pure.input)
        sealed == proc["p1"].signedEntry
    IN  /\ sealed[Len(sealed)][1] = "signature"
        /\ Without(sealed, "signature") = InputPlusKeyId(payload, sealed)

\* In this step the run of p signs `payload`: the sealed entry has the
\* payload's key_id or, when it has none, the active key of keys.json as it is
\* in this step, and the signature is over a canonical form with that key_id.
SignsWithKeyId(p, payload) ==
  LET sealed == proc'[p].signedEntry
  IN  /\ Get(sealed, "entry_id") = Get(payload, "entry_id")
      /\ Get(sealed, "subject_ref") = Get(payload, "subject_ref")
      /\ Get(sealed, "key_id") = IF Has(payload, "key_id") THEN Get(payload, "key_id")
                                 ELSE Str(keysJson.active)
      /\ Get(proc'[p].canonical, "key_id") = Get(sealed, "key_id")
      /\ Get(sealed, "signature")
           = Str(SignDetached(JSONstringify(proc'[p].canonical),
                              DeriveSecretKey(privateKeyB64)))

KeyIdStamped ==
  \A p \in Procs :
    (proc[p].pc \in {"idle", "done", "failed"} /\ proc'[p].pc = "signed")
      => \E payload \in Payloads : SignsWithKeyId(p, payload)

\* C27 (checked under SpecSequential): the key_id of the sealed entry of a run
\* is the key_id the payload supplied or, when it supplied none, the active
\* key of keys.json when the run signed; and the canonical form the run
\* signed carries that key_id.
C27_KeyIdStamping == [][KeyIdStamped]_vars

\* C27 witness: after a rotation one stored entry carries the key_id its payload
\* supplied and a run has stamped the new active key on an entry that had none.
C27_Witness ==
  /\ keysJson.active = KeyIds[2]
  /\ proc["p1"].pc = "signed"
  /\ Get(proc["p1"].signedEntry, "key_id") = Str(KeyIds[2])
  /\ \E e \in DOMAIN entriesDir : Get(entriesDir[e], "key_id") = Str("K9")

\* The entry without the fields whose value is null.
WithoutNulls(entry) == SelectSeq(entry, LAMBDA field : field[2] # Null)

\* The fields of `order` that the entry has with a value other than null.
PresentNonNull(entry, order) ==
  SelectSeq(order, LAMBDA f : Get(entry, f) # Undefined /\ Get(entry, f) # Null)

\* C28 (checked under SpecCanon): each of the three canonicalize functions
\* includes exactly the fields of its field order that are present and not
\* null, and returns for an entry with null fields what it returns for the
\* entry without them.
C28_NullOmission ==
  pure.stage = "canonical" =>
    /\ pure.canonical = << canonicalize(WithoutNulls(pure.input)),
                           canonicalize_0(WithoutNulls(pure.input)),
                           canonicalize_V(WithoutNulls(pure.input)) >>
    /\ Keys(canonicalObject(pure.input)) = PresentNonNull(pure.input, FIELD_ORDER)
    /\ Keys(canonicalObject_0(pure.input)) = PresentNonNull(pure.input, FIELD_ORDER_0)
    /\ Keys(canonicalObject_V(pure.input)) = PresentNonNull(pure.input, FIELD_ORDER_V)

\* The ten base fields, in canonical order.
BaseFields ==
  << "entry_id", "issued_at", "subject_type", "subject_ref", "subject_locator",
     "policy_version", "result", "scores", "report_hash", "key_id" >>

IsBaseField(f) == \E i \in 1..Len(BaseFields) : BaseFields[i] = f

\* The base fields among `keys` are in the order of BaseFields.
InBaseOrder(keys) ==
  SelectSeq(keys, IsBaseField) = SelectSeq(BaseFields, LAMBDA f : Includes(keys, f))

\* Every field of `keys` that is not a base field comes after key_id.
ExtendedAfterKeyId(keys) ==
  \A i, j \in 1..Len(keys) : (keys[i] = "key_id" /\ ~IsBaseField(keys[j])) => i < j

\* C29 (checked under SpecCanon): in the canonical object of each canonicalize
\* the base fields are in the order entry_id, issued_at, subject_type,
\* subject_ref, subject_locator, policy_version, result, scores, report_hash,
\* key_id; and in the signer's, every extended field of the entry that is
\* present is included and comes after key_id.
C29_CanonicalFieldOrder ==
  pure.stage = "canonical" =>
    /\ pure.canonical[1] = JSONstringify(canonicalObject(pure.input))
    /\ InBaseOrder(Keys(canonicalObject(pure.input)))
    /\ InBaseOrder(Keys(canonicalObject_0(pure.input)))
    /\ InBaseOrder(Keys(canonicalObject_V(pure.input)))
    /\ \A f \in {"tags", "notes"} :
         Has(pure.input, f) => Has(canonicalObject(pure.input), f)
    /\ ExtendedAfterKeyId(Keys(canonicalObject(pure.input)))

(***************************************************************************)
(* Array fields: SpecSequences draws an entry with each of the six array    *)
(* fields that canonicalize sorts absent or present in one of two element   *)
(* orders, and with `notes`, a field canonicalize does not sort, absent or  *)
(* an array in one of two orders; and applies the signer's canonicalize.    *)
(***************************************************************************)
SequenceFields ==
  << "compliance_standards", "related_entry_ids", "tags", "certificate_ids",
     "dependencies", "ai_models_used" >>

TwoOrders == {Arr(<<"b", "a">>), Arr(<<"a", "b">>)}

SequenceEntries ==
  { Base("E1", "abc") \o cs \o re \o tg \o ci \o dp \o am \o nt :
      cs \in Optional(SequenceFields[1], TwoOrders),
      re \in Optional(SequenceFields[2], TwoOrders),
      tg \in Optional(SequenceFields[3], TwoOrders),
      ci \in Optional(SequenceFields[4], TwoOrders),
      dp \in Optional(SequenceFields[5], TwoOrders),
      am \in Optional(SequenceFields[6], TwoOrders),
      nt \in Optional("notes", TwoOrders) }

\* entry[field] after canonicalize(entry) returned: canonicalize sorts the copy
\* [...entry[field]] and the new array Object.keys(entry.scores), and assigns
\* to no property of entry.
ValueAfterCanonicalize(field, v) == v

EntryAfterCanonicalize(entry) ==
  [i \in 1..Len(entry) |-> <<entry[i][1], ValueAfterCanonicalize(entry[i][1], entry[i][2])>>]

InitSequences ==
  /\ script = "sign-and-append"
  /\ keysJson = Registry(1)
  /\ privateKeyB64 = SecretKey(KeyPairs[1])
  /\ AtRest
  /\ pure \in { [NoPure EXCEPT !.stage = "input", !.input = e] : e \in SequenceEntries }

\* canonical: the string returned, the entry as the call left it.
CanonicalizeSequences ==
  /\ pure.stage = "input"
  /\ pure' = [pure EXCEPT !.stage = "canonical",
                          !.canonical = canonicalize(pure.input),
                          !.tampered = EntryAfterCanonicalize(pure.input)]
  /\ UNCHANGED Ledger

NextSequences == CanonicalizeSequences

SpecSequences == InitSequences /\ [][NextSequences]_vars

\* The entry with the arrays of the fields in `fields` in reverse order.
ReverseArrays(entry, fields) ==
  [i \in 1..Len(entry) |->
     IF entry[i][1] \in fields /\ IsArray(entry[i][2])
       THEN <<entry[i][1], Arr(Reverse(Elems(entry[i][2])))>>
       ELSE entry[i]]

SignatureValues ==
  { Str(SignDetached("m", SecretKey(KeyPairs[1]))), Str(""), Str("K1"), Null, Undefined,
    Arr(<<"b", "a">>), Obj(<<"security", "8", "repro", "7">>) }

\* The entry with a signature field as its first own property, as one in the
\* middle or as its last.
SignedAt(entry, where, v) ==
  CASE where = "first" -> << <<"signature", v>> >> \o entry
    [] where = "middle" -> SubSeq(entry, 1, 3) \o << <<"signature", v>> >>
                             \o SubSeq(entry, 4, Len(entry))
    [] where = "last" -> entry \o << <<"signature", v>> >>

SignatureEntries ==
  LET Plain == { Base("E1", "abc") \o loc \o sc \o tg \o nt \o kid :
                   loc \in Optional("subject_locator", {Str("https://x.example")}),
                   sc \in Optional("scores", {Obj(<<"security", "8", "repro", "7">>)}),
                   tg \in Optional("tags", {Arr(<<"b", "a">>)}),
                   nt \in Optional("notes", {Str("signature")}),
                   kid \in Optional("key_id", {Str("K1")}) }
  IN  Plain \cup { SignedAt(e, where, v) :
                     e \in Plain, where \in {"first", "middle", "last"},
                     v \in SignatureValues }

InitSignature ==
  /\ script = "sign-and-append"
  /\ keysJson = [active |-> KeyIds[1], keys |-> [k \in {KeyIds[1]} |-> KeyRecord(KeyPairs[1])]]
  /\ privateKeyB64 = SecretKey(KeyPairs[1])
  /\ AtRest
  /\ pure \in { [NoPure EXCEPT !.stage = "input", !.input = e] : e \in SignatureEntries }

\* tampered: entryWithoutSignature; canonical: what each copy returns for the
\* entry as given, then what each returns for entryWithoutSignature.
CanonicalizeSignature ==
  /\ pure.stage = "input"
  /\ LET entryWithoutSignature == Without(pure.input, "signature")
     IN  pure' = [pure EXCEPT !.stage = "canonical",
                              !.tampered = entryWithoutSignature,
                              !.canonical = << canonicalize(pure.input),
                                               canonicalize_0(pure.input),
                                               canonicalize_V(pure.input),
                                               canonicalize(entryWithoutSignature),
                                               canonicalize_0(entryWithoutSignature),
                                               canonicalize_V(entryWithoutSignature) >>]
  /\ UNCHANGED Ledger

NextSignature == CanonicalizeSignature

SpecSignature == InitSignature /\ [][NextSignature]_vars

\* `part` occurs in `text`.
Occurs(part, text) ==
  \E i \in 1..(Len(text) + 1 - Len(part)) : SubSeq(text, i, i + Len(part) - 1) = part

\* C31 (checked under SpecSignature): for each of the three canonicalize
\* functions, the object it serialises has no signature field and the string
\* it returns has no "signature" key; and for an entry with a signature field,
\* whatever the field holds and wherever it stands, the function returns the
\* same string as for the entry with that field removed.
C31_SignatureExclusion ==
  pure.stage = "canonical" =>
    /\ ~Has(canonicalObject(pure.input), "signature")
    /\ ~Has(canonicalObject_0(pure.input), "signature")
    /\ ~Has(canonicalObject_V(pure.input), "signature")
    /\ \A k \in 1..3 :
         /\ ~Occurs("\"signature\":", pure.canonical[k])
         /\ pure.canonical[k] = pure.canonical[k + 3]

\* C31 witness: an entry whose last field is a signature holding a detached
\* signature was canonicalized; without that field the entry is a different
\* entry, and the three functions returned non-empty objects for it.
C31_Witness ==
  /\ pure.stage = "canonical"
  /\ Has(pure.input, "signature")
  /\ pure.input[Len(pure.input)] =
       <<"signature", Str(SignDetached("m", SecretKey(KeyPairs[1])))>>
  /\ pure.tampered # pure.input
  /\ ~Has(pure.tampered, "signature")
  /\ Has(pure.input, "notes")
  /\ \A k \in 1..3 : Occurs("\"entry_id\":\"E1\"", pure.canonical[k])

=============================================================================
